---- MODULE Spec2Model ----
(***************************************************************************)
(* A model of SPHinXsys' level set (shared/geometries/level_set.cpp):      *)
(*   - MultilevelLevelSet: level search and the blended kernel probes,     *)
(*   - LevelSet::probeIsWithinMeshBound,                                   *)
(*   - the parallel construction of a LevelSet / RefinedLevelSet and the   *)
(*     cleanInterface pipeline.                                            *)
(* Real numbers are modelled as integers counted in units of Eps / 2, so   *)
(* that the tolerance of the level search is observable; quotients are     *)
(* kept as fractions [num, den].                                           *)
(***************************************************************************)
EXTENDS Integers, Sequences, FiniteSets, TLC

VARIABLES
    \* ---- MultilevelLevelSet --------------------------------------------
    mesh_levels_,      \* global_h_ratio_ of every level, coarsest first
    lv_pc,             \* "idle" | "returned" | "exited" | "crashed"
    lv_op,             \* the member function called last
    h_ratio,           \* its h_ratio argument
    level_values,      \* single-level probe value of every level at position
    coarse_level,      \* value returned by getMeshLevel (0-based)
    fine_read,         \* what mesh_levels_[coarse_level + 1] gave
    result,            \* returned blend, a fraction [num, den]
    \* ---- LevelSet::probeIsWithinMeshBound -------------------------------
    number_of_cells_,  \* cells per dimension
    cell_pos,          \* CellIndexFromPosition(position)
    is_bounded,        \* returned value
    mb_pc,             \* "idle" | "returned"
    \* ---- construction and cleaning of a LevelSet / RefinedLevelSet ------
    grid_kind,         \* "LevelSet" | "RefinedLevelSet"
    shape_,            \* per cell: measure and checkContain at its position
    coarse_mesh_,      \* per cell: the coarse level's phi and core test
    data_pkg_addrs_,   \* cell -> address of its package (0: not yet set)
    data_pkg_pool_,    \* address -> package, the allocated packages
    core_data_pkgs_,   \* address -> number of entries in the collection
    inner_data_pkgs_,  \* address -> number of entries in the collection
    mutex_my_pool,     \* 0, or the cell whose work item holds the mutex
    call,              \* "constructor" | "cleanInterface" | "none"
    pass_log,          \* the parallel passes of the call, the last one running
    pc,                \* cell -> position of its work item in a cell pass
    new_data_pkg,      \* cell -> createDataPackage's local new_data_pkg
    clean_calls,       \* calls of cleanInterface so far
    \* ---- MultilevelLevelSet: direct probes, bound test, cleanInterface ---
    level_sets,        \* per level: what the LevelSet answers at position
    ml_pc,             \* "idle" | "returned"
    ml_op,             \* the member function called last
    probe_level,       \* value returned by getProbeLevel (0-based)
    ml_result          \* the value returned to the caller

lvars == <<mesh_levels_, lv_pc, lv_op, h_ratio, level_values, coarse_level,
           fine_read, result>>
bvars == <<number_of_cells_, cell_pos, is_bounded, mb_pc>>
gvars == <<grid_kind, shape_, coarse_mesh_, data_pkg_addrs_, data_pkg_pool_,
           core_data_pkgs_, inner_data_pkgs_, mutex_my_pool, call, pass_log,
           pc, new_data_pkg, clean_calls>>
mvars == <<level_sets, ml_pc, ml_op, probe_level, ml_result>>
vars == <<lvars, bvars, gvars, mvars>>

(***************************************************************************)
(* Bounds of the model.                                                    *)
(***************************************************************************)
MaxLevels == 3      \* at most this many levels in a hierarchy
MaxRatio == 4       \* level ratios are RatioStep * (1 .. MaxRatio)
RatioStep == 4      \* distance of two candidate ratios, in units of Eps / 2
MaxValue == 1       \* single-level probe values are 0 .. MaxValue
MaxCells == 6       \* cells per dimension are 1 .. MaxCells
Dimensions == 2     \* components of a position (Vecd) and of a cell index
NumCells == 3       \* cells of the grid under construction, in a row
MaxThreads == 2     \* work items of a pass in progress at the same time
MaxMeasure == 1     \* the proximity measure of a cell is 0 .. MaxMeasure
MaxCleanCalls == 2  \* calls of cleanInterface on the built grid

\* The tolerance of the level search, in the model's unit (Eps / 2).
Eps == 2

\* getMeshLevel's exit(1): no level index.
LevelSearchExit == -1

LevelRatios == {RatioStep * k : k \in 1..MaxRatio}
TargetRatios == 0..(RatioStep * (MaxRatio + 1))
FieldValues == 0..MaxValue

RECURSIVE IsIncreasing(_)
IsIncreasing(s) ==
    IF Len(s) <= 1 THEN TRUE
    ELSE s[1] < s[2] /\ IsIncreasing(Tail(s))

\* The hierarchies: 1 .. MaxLevels levels of strictly increasing ratio.
Hierarchies ==
    UNION {{s \in [1..n -> LevelRatios] : IsIncreasing(s)} : n \in 1..MaxLevels}

total_levels_ == Len(mesh_levels_)

(***************************************************************************)
(* MultilevelLevelSet::getMeshLevel: scan from the finest level down and   *)
(* return the first whose ratio is not more than Eps above h; exit(1) when *)
(* none is.                                                                *)
(***************************************************************************)
RECURSIVE ScanFromCoarsest(_, _, _)
ScanFromCoarsest(levels, h, level) ==
    IF level > Len(levels) THEN LevelSearchExit
    ELSE IF h - levels[level] > -Eps THEN level - 1
    ELSE ScanFromCoarsest(levels, h, level + 1)

RECURSIVE ScanNoTolerance(_, _, _)
ScanNoTolerance(levels, h, level) ==
    IF level = 0 THEN LevelSearchExit
    ELSE IF h - levels[level] > 0 THEN level - 1
    ELSE ScanNoTolerance(levels, h, level - 1)

RECURSIVE ScanMeshLevel(_, _, _)
ScanMeshLevel(levels, h, level) ==
    IF level = 0 THEN LevelSearchExit
    ELSE IF h - levels[level] > -Eps THEN level - 1
    ELSE ScanMeshLevel(levels, h, level - 1)

getMeshLevelFromCoarsest(levels, h) == ScanFromCoarsest(levels, h, 1)

getMeshLevelNoTolerance(levels, h) == ScanNoTolerance(levels, h, Len(levels))

getMeshLevel(levels, h) == ScanMeshLevel(levels, h, Len(levels))

(***************************************************************************)
(* mesh_levels_[index], index 0-based as in the code.  An index past the   *)
(* end of the vector is undefined behaviour: the read gives the ratio and  *)
(* the probe value of whatever object the stray pointer names, or the      *)
(* process crashes on it.                                                  *)
(***************************************************************************)
GarbageReads ==
    {[crash |-> TRUE, ratio |-> 0, value |-> 0]} \cup
    {[crash |-> FALSE, ratio |-> r, value |-> v] :
        r \in LevelRatios \cup {0}, v \in FieldValues}

LevelReadsSameLevel(levels, values, index) ==
    {[crash |-> FALSE, ratio |-> levels[index], value |-> values[index]]}

LevelReads(levels, values, index) ==
    IF index < Len(levels)
    THEN {[crash |-> FALSE, ratio |-> levels[index + 1],
           value |-> values[index + 1]]}
    ELSE GarbageReads

\* alpha = (fine ratio - h_ratio) / (fine ratio - coarse ratio)
BlendAlpha(fine_ratio, coarse_ratio, h) ==
    [num |-> fine_ratio - h, den |-> fine_ratio - coarse_ratio]

BlendWeightsSwapped(alpha, coarse_level_value, fine_level_value) ==
    [num |-> alpha.num * fine_level_value
             + (alpha.den - alpha.num) * coarse_level_value,
     den |-> alpha.den]

\* alpha * coarse_level_value + (1.0 - alpha) * fine_level_value
Blend(alpha, coarse_level_value, fine_level_value) ==
    [num |-> alpha.num * coarse_level_value
             + (alpha.den - alpha.num) * fine_level_value,
     den |-> alpha.den]

NoResult == [num |-> 0, den |-> 1]
NoRead == [crash |-> FALSE, ratio |-> 0, value |-> 0]
NoValues == <<>>

(***************************************************************************)
(* The calls on a MultilevelLevelSet.  The position argument of a probe is *)
(* given by the values the single-level probes return at that position.    *)
(***************************************************************************)
CallGetMeshLevel(h) ==
    /\ lv_pc = "idle"
    /\ lv_op' = "getMeshLevel"
    /\ h_ratio' = h
    /\ coarse_level' = getMeshLevel(mesh_levels_, h)
    /\ lv_pc' = IF coarse_level' = LevelSearchExit THEN "exited" ELSE "returned"
    /\ UNCHANGED <<mesh_levels_, level_values, fine_read, result, bvars, gvars, mvars>>

\* The body shared by probeKernelIntegral and probeKernelGradientIntegral.
BlendedProbe(op, h, values) ==
    /\ lv_pc = "idle"
    /\ lv_op' = op
    /\ h_ratio' = h
    /\ level_values' = values
    /\ coarse_level' = getMeshLevel(mesh_levels_, h)
    /\ IF coarse_level' = LevelSearchExit
       THEN /\ lv_pc' = "exited"
            /\ UNCHANGED <<fine_read, result>>
       ELSE \E fine \in LevelReads(mesh_levels_, values, coarse_level' + 1) :
              /\ fine_read' = fine
              /\ IF fine.crash
                 THEN /\ lv_pc' = "crashed"
                      /\ UNCHANGED result
                 ELSE /\ lv_pc' = "returned"
                      /\ result' =
                           Blend(BlendAlpha(fine.ratio,
                                            mesh_levels_[coarse_level' + 1], h),
                                 values[coarse_level' + 1], fine.value)
    /\ UNCHANGED <<mesh_levels_, bvars, gvars, mvars>>

probeKernelIntegral(h, values) ==
    BlendedProbe("probeKernelIntegral", h, values)

probeKernelGradientIntegral(h, values) ==
    BlendedProbe("probeKernelGradientIntegral", h, values)

\* The caller goes on to its next call.
ReturnToCaller ==
    /\ lv_pc = "returned"
    /\ lv_pc' = "idle"
    /\ lv_op' = "none"
    /\ h_ratio' = 0
    /\ level_values' = NoValues
    /\ coarse_level' = 0
    /\ fine_read' = NoRead
    /\ result' = NoResult
    /\ UNCHANGED <<mesh_levels_, bvars, gvars, mvars>>

BoundIdle ==
    /\ number_of_cells_ = <<>>
    /\ cell_pos = <<>>
    /\ is_bounded = FALSE
    /\ mb_pc = "off"

GridIdle ==
    /\ grid_kind = "none"
    /\ shape_ = <<>>
    /\ coarse_mesh_ = <<>>
    /\ data_pkg_addrs_ = <<>>
    /\ data_pkg_pool_ = <<>>
    /\ core_data_pkgs_ = <<>>
    /\ inner_data_pkgs_ = <<>>
    /\ mutex_my_pool = 0
    /\ call = "none"
    /\ pass_log = <<>>
    /\ pc = <<>>
    /\ new_data_pkg = <<>>
    /\ clean_calls = 0

MultiIdle ==
    /\ level_sets = <<>>
    /\ ml_pc = "off"
    /\ ml_op = "none"
    /\ probe_level = 0
    /\ ml_result = <<>>

InitLevels ==
    /\ mesh_levels_ \in Hierarchies
    /\ lv_pc = "idle"
    /\ lv_op = "none"
    /\ h_ratio = 0
    /\ level_values = NoValues
    /\ coarse_level = 0
    /\ fine_read = NoRead
    /\ result = NoResult
    /\ BoundIdle
    /\ GridIdle
    /\ MultiIdle

NextLevels ==
    \/ \E h \in TargetRatios : CallGetMeshLevel(h)
    \/ \E h \in TargetRatios, values \in [1..total_levels_ -> FieldValues] :
         probeKernelIntegral(h, values)
    \/ \E h \in TargetRatios, values \in [1..total_levels_ -> FieldValues] :
         probeKernelGradientIntegral(h, values)
    \/ ReturnToCaller

SpecLevels == InitLevels /\ [][NextLevels]_vars

(***************************************************************************)
(* Properties of the level search and of the blended probes.               *)
(***************************************************************************)
Ratio(i) == mesh_levels_[i]

GetMeshLevelDone ==
    lv_op = "getMeshLevel" /\ lv_pc \in {"returned", "exited"}

ProbeDone ==
    /\ lv_op \in {"probeKernelIntegral", "probeKernelGradientIntegral"}
    /\ lv_pc \in {"returned", "crashed"}

\* The 1-based number of the level getMeshLevel returned.
Selected == coarse_level + 1

\* C1 (as amended): for a target above r_1 - Eps, getMeshLevel returns the
\* level i with r_i - Eps < target <= r_{i+1} - Eps, and the finest level N
\* when target > r_N - Eps.
C1_LevelWithinTolerance ==
    (GetMeshLevelDone /\ h_ratio - Ratio(1) > -Eps) =>
        /\ lv_pc = "returned"
        /\ Selected \in 1..total_levels_
        /\ Ratio(Selected) - Eps < h_ratio
        /\ Selected = total_levels_ \/ h_ratio <= Ratio(Selected + 1) - Eps

\* getMeshLevel returned a middle level for a target just below its ratio.
C1_Witness ==
    /\ GetMeshLevelDone
    /\ lv_pc = "returned"
    /\ total_levels_ = 3
    /\ Selected = 2
    /\ h_ratio < Ratio(2)

\* C1 as stated: for r_1 <= target, getMeshLevel returns the level i with
\* r_i <= target < r_{i+1}, and the finest level N when target >= r_N.
C1_Original ==
    (GetMeshLevelDone /\ Ratio(1) <= h_ratio) =>
        /\ lv_pc = "returned"
        /\ Selected \in 1..total_levels_
        /\ Ratio(Selected) <= h_ratio
        /\ Selected = total_levels_ \/ h_ratio < Ratio(Selected + 1)

\* C2 (as amended): the level search ends in the fatal error exactly when
\* the target lies Eps or more below the coarsest level's ratio.
C2_ExitBelowCoarsest ==
    (lv_pc # "idle") =>
        (lv_pc = "exited" <=> h_ratio - Ratio(1) <= -Eps)

\* A level search of a hierarchy of several levels ended in exit(1).
C2_Witness ==
    /\ lv_pc = "exited"
    /\ total_levels_ >= 2
    /\ h_ratio < Ratio(1)

\* C2 as stated: the fatal error is reached exactly when the target exceeds
\* every level's ratio (target > r_N).
C2_Original ==
    (lv_pc # "idle") =>
        (lv_pc = "exited" <=> h_ratio > Ratio(total_levels_))

\* The finest level whose ratio is below target + Eps.
FinestNotAbove(h) ==
    CHOOSE i \in 1..total_levels_ :
        /\ Ratio(i) - Eps < h
        /\ \A j \in 1..total_levels_ : Ratio(j) - Eps < h => j <= i

\* The coarsest level whose ratio is >= the target.
CoarsestNotBelow(h) ==
    CHOOSE i \in 1..total_levels_ :
        /\ Ratio(i) >= h
        /\ \A j \in 1..total_levels_ : Ratio(j) >= h => i <= j

\* The blend partner is the level after the selected one.
PairedWithNextFiner ==
    /\ ~fine_read.crash
    /\ fine_read.ratio = Ratio(Selected + 1)
    /\ fine_read.value = level_values[Selected + 1]

\* C3 (as amended): the blended probes select the finest level whose ratio
\* is <= the target (below target + Eps), and pair it with the level of the
\* next index, the next-finer level whenever the selected one is not the
\* finest.
C3_SelectsFinestNotAbove ==
    ProbeDone =>
        /\ Selected = FinestNotAbove(h_ratio)
        /\ Selected < total_levels_ => PairedWithNextFiner

\* A blended probe with a target strictly between two levels returned.
C3_Witness ==
    /\ ProbeDone
    /\ lv_pc = "returned"
    /\ Selected < total_levels_
    /\ Ratio(Selected) < h_ratio
    /\ h_ratio < Ratio(Selected + 1) - Eps
    /\ PairedWithNextFiner

\* C3 as stated: the blended probes select the coarsest level whose ratio
\* is >= the target, and pair it with the next-finer level.
C3_Original ==
    (ProbeDone /\ \E i \in 1..total_levels_ : Ratio(i) >= h_ratio) =>
        /\ Selected = CoarsestNotBelow(h_ratio)
        /\ Selected < total_levels_ => PairedWithNextFiner

\* C4: probeKernelIntegral with h_ratio equal to the ratio of a level, the
\* finest included, returns that level's single-level probe value.
C4_OwnRatioGivesOwnValue ==
    \A i \in 1..total_levels_ :
        (/\ lv_op = "probeKernelIntegral"
         /\ lv_pc \in {"returned", "crashed"}
         /\ h_ratio = Ratio(i)) =>
            /\ lv_pc = "returned"
            /\ result.den # 0
            /\ result.num = level_values[i] * result.den

\* The part of C4 the code keeps: every level but the finest.
C4_BelowFinest ==
    \A i \in 1..(total_levels_ - 1) :
        (/\ lv_op = "probeKernelIntegral"
         /\ lv_pc \in {"returned", "crashed"}
         /\ h_ratio = Ratio(i)) =>
            /\ lv_pc = "returned"
            /\ result.den # 0
            /\ result.num = level_values[i] * result.den

(***************************************************************************)
(* LevelSet::probeIsWithinMeshBound.  The position is given by the index   *)
(* of the cell that contains it, 0 .. number_of_cells_ - 1 per dimension.  *)
(* number_of_cells_ and cell_pos are unsigned (Vecu): the subtraction      *)
(* wraps.  SizeModulus stands for 2^64; every modulus above MaxCells + 2   *)
(* gives the same comparisons.                                             *)
(***************************************************************************)
SizeModulus == 2^16

UnsignedSub(a, b) == (a - b) % SizeModulus

Dims == 1..Dimensions

Grids == [Dims -> 1..MaxCells]

CellsOf(n) == {c \in [Dims -> 0..(MaxCells - 1)] : \A i \in Dims : c[i] < n[i]}

\* One round of the loop over the dimensions: does it leave is_bounded alone?
UpperCheck(c, n) == c > UnsignedSub(n, 2)

LowerCheck(c) == c < 2

WithinMeshBound(c, n) ==
    \A i \in Dims : ~LowerCheck(c[i]) /\ ~UpperCheck(c[i], n[i])

probeIsWithinMeshBound(c) ==
    /\ mb_pc = "idle"
    /\ cell_pos' = c
    /\ is_bounded' = WithinMeshBound(c, number_of_cells_)
    /\ mb_pc' = "returned"
    /\ UNCHANGED <<number_of_cells_, lvars, gvars, mvars>>

ReturnFromBound ==
    /\ mb_pc = "returned"
    /\ mb_pc' = "idle"
    /\ is_bounded' = FALSE
    /\ cell_pos' = [i \in Dims |-> 0]
    /\ UNCHANGED <<number_of_cells_, lvars, gvars, mvars>>

LevelsIdle ==
    /\ mesh_levels_ = <<>>
    /\ lv_pc = "off"
    /\ lv_op = "none"
    /\ h_ratio = 0
    /\ level_values = NoValues
    /\ coarse_level = 0
    /\ fine_read = NoRead
    /\ result = NoResult

InitBound ==
    /\ number_of_cells_ \in Grids
    /\ cell_pos = [i \in Dims |-> 0]
    /\ is_bounded = FALSE
    /\ mb_pc = "idle"
    /\ LevelsIdle
    /\ GridIdle
    /\ MultiIdle

NextBound ==
    \/ \E c \in CellsOf(number_of_cells_) : probeIsWithinMeshBound(c)
    \/ ReturnFromBound

SpecBound == InitBound /\ [][NextBound]_vars

\* C5: probeIsWithinMeshBound returns false exactly when, in some dimension,
\* the containing cell is one of the first two or one of the last two cells.
C5_TwoCellMargin ==
    (mb_pc = "returned") =>
        (is_bounded = FALSE <=>
            \E i \in Dims :
                \/ cell_pos[i] < 2
                \/ cell_pos[i] >= number_of_cells_[i] - 2)

\* What the code computes: two cells at the lower edge, one at the upper.
C5_LowerTwoUpperOne ==
    (mb_pc = "returned") =>
        (is_bounded = FALSE <=>
            \E i \in Dims :
                \/ cell_pos[i] < 2
                \/ cell_pos[i] >= number_of_cells_[i] - 1)

(***************************************************************************)
(* Construction of a LevelSet or RefinedLevelSet and cleanInterface.       *)
(*                                                                         *)
(* The grid is a row of NumCells cells.  The shape is given by what it     *)
(* answers at each cell position: measure, the largest absolute component  *)
(* of normal_direction * signed_distance in units of grid_spacing_, and    *)
(* checkContain; the coarse level of a refined grid likewise by its        *)
(* probeSignedDistance and isWithinCorePackage.  A package collection is   *)
(* kept as the number of entries per package, the order of the entries     *)
(* being read by no pass.                                                  *)
(***************************************************************************)
grid_spacing_ == 1

ReinitSweeps == 50

Cells == 1..NumCells

Addresses == 1..(2 + 2 * NumCells)

\* singular_data_pkgs_addrs_[0] (-far_field_distance) and [1] (+far_field_distance)
singular_data_pkgs_addrs_ == <<1, 2>>

\* The buffer width the constructors pass on, and the distance the two
\* singular packages hold: -far_field_distance first, +far_field_distance second.
buffer_width_ == 4

far_field_distance == grid_spacing_ * buffer_width_

SingularPhi == <<-far_field_distance, far_field_distance>>

\* LevelSetDataPackage::LevelSetDataPackage
NewPackage ==
    [pkg_index_ |-> 0, is_core_pkg_ |-> FALSE, is_inner_pkg_ |-> FALSE,
     initialized |-> FALSE, addrs |-> "unset", computed |-> {}]

\* initializeASingularDataPackage
SingularPackage ==
    [NewPackage EXCEPT !.initialized = TRUE, !.addrs = "self"]

Allocated == DOMAIN data_pkg_pool_

\* The measure test of initializeDataInACell.
ProximityTestInclusive(c) == shape_[c].measure <= grid_spacing_

ProximityTest(c) == shape_[c].measure < grid_spacing_

Neighbours(c) == {n \in Cells : n - c \in {-1, 0, 1}}

DataPackageFromCellIndex(c) == data_pkg_pool_[data_pkg_addrs_[c]]

\* Is a cell of the neighbourhood bound to a core package?
isInnerPackage(c) ==
    \E n \in Neighbours(c) : DataPackageFromCellIndex(n).is_core_pkg_

push_back(collection, a) == [collection EXCEPT ![a] = @ + 1]

PackageItems(collection) ==
    UNION {{<<a, k>> : k \in 1..collection[a]} : a \in Addresses}

(***************************************************************************)
(* The parallel iterations a member function runs, in the order of its     *)
(* statements: each is MeshIterator_parallel over the cells or             *)
(* PackageIterator_parallel over a package collection, and returns when    *)
(* every work item has run.                                                *)
(***************************************************************************)
Pass(stage, functor, over) ==
    [stage |-> stage, functor |-> functor, over |-> over]

updateNormalDirection ==
    <<Pass("updateNormalDirection", "updateNormalDirectionForAPackage",
           "inner_data_pkgs_")>>

updateNoneNormalizedNormalDirection ==
    <<Pass("updateNoneNormalizedNormalDirection",
           "updateNoneNormalizedNormalDirectionForAPackage",
           "inner_data_pkgs_")>>

updateKernelIntegrals ==
    <<Pass("updateKernelIntegrals", "updateKernelIntegralsForAPackage",
           "inner_data_pkgs_")>>

reinitializeLevelSetOneSweepLess ==
    [i \in 1..(ReinitSweeps - 1) |->
        Pass("reinitializeLevelSet", "stepReinitializationForAPackage",
             "inner_data_pkgs_")]

reinitializeLevelSet ==
    [i \in 1..ReinitSweeps |->
        Pass("reinitializeLevelSet", "stepReinitializationForAPackage",
             "inner_data_pkgs_")]

markNearInterface ==
    <<Pass("markNearInterface", "markNearInterfaceForAPackage",
           "core_data_pkgs_")>>

redistanceInterface ==
    <<Pass("redistanceInterface", "redistanceInterfaceForAPackage",
           "core_data_pkgs_")>>

cleanInterfaceRetagging ==
    <<Pass("finishDataPackages", "tagACellIsInnerPackage", "cells")>>
        \o markNearInterface \o redistanceInterface \o reinitializeLevelSet
        \o updateNormalDirection \o updateKernelIntegrals

cleanInterfaceRefreshFirst ==
    markNearInterface \o redistanceInterface \o updateNormalDirection
        \o reinitializeLevelSet \o updateKernelIntegrals

cleanInterface ==
    markNearInterface \o redistanceInterface \o reinitializeLevelSet
        \o updateNormalDirection \o updateKernelIntegrals

finishDataPackagesAddressFirst ==
    <<Pass("finishDataPackages", "initializeAddressesInACell", "cells"),
      Pass("finishDataPackages", "tagACellIsInnerPackage", "cells")>>
        \o updateNormalDirection \o updateNoneNormalizedNormalDirection
        \o updateKernelIntegrals

finishDataPackages ==
    <<Pass("finishDataPackages", "tagACellIsInnerPackage", "cells"),
      Pass("finishDataPackages", "initializeAddressesInACell", "cells")>>
        \o updateNormalDirection \o updateNoneNormalizedNormalDirection
        \o updateKernelIntegrals

LevelSetConstructor ==
    <<Pass("LevelSet", "initializeDataInACell", "cells")>>
        \o finishDataPackages

RefinedLevelSetConstructor ==
    <<Pass("RefinedLevelSet", "initializeDataInACellFromCoarse", "cells")>>
        \o finishDataPackages

Script ==
    IF call = "cleanInterface" THEN cleanInterface
    ELSE IF grid_kind = "RefinedLevelSet" THEN RefinedLevelSetConstructor
    ELSE LevelSetConstructor

ThePass == pass_log[Len(pass_log)]

Running(functor) ==
    call # "none" /\ pass_log # <<>> /\ ThePass.functor = functor

PassItems(over) ==
    IF over = "cells" THEN Cells
    ELSE IF over = "core_data_pkgs_" THEN PackageItems(core_data_pkgs_)
    ELSE PackageItems(inner_data_pkgs_)

Complete(pass) == pass.done = PassItems(pass.over)

\* The work item is done: the iterator counts it.
ItemDone(item) ==
    [pass_log EXCEPT ![Len(pass_log)].done = @ \cup {item}]

InProgress == {c \in Cells : pc[c] \notin {"todo", "done"}}

\* A thread is free to take the next work item of the pass.
ThreadFree == Cardinality(InProgress) < MaxThreads

StartPass ==
    /\ call # "none"
    /\ IF pass_log = <<>> THEN TRUE ELSE Complete(ThePass)
    /\ Len(pass_log) < Len(Script)
    /\ pass_log' =
         Append(pass_log,
                [stage |-> Script[Len(pass_log) + 1].stage,
                 functor |-> Script[Len(pass_log) + 1].functor,
                 over |-> Script[Len(pass_log) + 1].over,
                 done |-> {}])
    /\ pc' = [c \in Cells |-> "todo"]
    /\ UNCHANGED <<grid_kind, shape_, coarse_mesh_, data_pkg_addrs_,
                   data_pkg_pool_, core_data_pkgs_, inner_data_pkgs_,
                   mutex_my_pool, call, new_data_pkg, clean_calls,
                   lvars, bvars, mvars>>

\* The constructor or cleanInterface returns after its last pass.
ReturnFromCall ==
    /\ call # "none"
    /\ pass_log # <<>>
    /\ Complete(ThePass)
    /\ Len(pass_log) = Len(Script)
    /\ call' = "none"
    /\ UNCHANGED <<grid_kind, shape_, coarse_mesh_, data_pkg_addrs_,
                   data_pkg_pool_, core_data_pkgs_, inner_data_pkgs_,
                   mutex_my_pool, pass_log, pc, new_data_pkg, clean_calls,
                   lvars, bvars, mvars>>

CallCleanInterface ==
    /\ call = "none"
    /\ clean_calls < MaxCleanCalls
    /\ call' = "cleanInterface"
    /\ clean_calls' = clean_calls + 1
    /\ pass_log' = <<>>
    /\ UNCHANGED <<grid_kind, shape_, coarse_mesh_, data_pkg_addrs_,
                   data_pkg_pool_, core_data_pkgs_, inner_data_pkgs_,
                   mutex_my_pool, pc, new_data_pkg, lvars, bvars, mvars>>

(***************************************************************************)
(* LevelSet::createDataPackage, entered by a work item at pc "lock".       *)
(***************************************************************************)
GridRest == <<grid_kind, shape_, coarse_mesh_, call, clean_calls, lvars, bvars, mvars>>

FreshAddressReused(c) == singular_data_pkgs_addrs_[2] + 1

\* The address data_pkg_pool_.malloc() returns: one not yet allocated.
FreshAddress(c) ==
    IF 2 + c \notin Allocated THEN 2 + c
    ELSE CHOOSE a \in Addresses \ Allocated :
            \A b \in Addresses \ Allocated : a <= b

LockNoMutex(c) ==
    /\ call # "none"
    /\ pc[c] = "lock"
    /\ mutex_my_pool' = c
    /\ pc' = [pc EXCEPT ![c] = "malloc"]
    /\ UNCHANGED <<data_pkg_addrs_, data_pkg_pool_, core_data_pkgs_,
                   inner_data_pkgs_, pass_log, new_data_pkg, GridRest>>

\* mutex_my_pool.lock()
Lock(c) ==
    /\ call # "none"
    /\ pc[c] = "lock"
    /\ mutex_my_pool = 0
    /\ mutex_my_pool' = c
    /\ pc' = [pc EXCEPT ![c] = "malloc"]
    /\ UNCHANGED <<data_pkg_addrs_, data_pkg_pool_, core_data_pkgs_,
                   inner_data_pkgs_, pass_log, new_data_pkg, GridRest>>

\* new_data_pkg = data_pkg_pool_.malloc()
PoolMalloc(c) ==
    /\ call # "none"
    /\ pc[c] = "malloc"
    /\ new_data_pkg' = [new_data_pkg EXCEPT ![c] = FreshAddress(c)]
    /\ data_pkg_pool_' =
         [a \in Allocated \cup {FreshAddress(c)} |->
            IF a = FreshAddress(c) THEN NewPackage ELSE data_pkg_pool_[a]]
    /\ pc' = [pc EXCEPT ![c] = "unlock"]
    /\ UNCHANGED <<data_pkg_addrs_, core_data_pkgs_, inner_data_pkgs_,
                   mutex_my_pool, pass_log, GridRest>>

\* mutex_my_pool.unlock()
Unlock(c) ==
    /\ call # "none"
    /\ pc[c] = "unlock"
    /\ mutex_my_pool' = 0
    /\ pc' = [pc EXCEPT ![c] = "init"]
    /\ UNCHANGED <<data_pkg_addrs_, data_pkg_pool_, core_data_pkgs_,
                   inner_data_pkgs_, pass_log, new_data_pkg, GridRest>>

\* initializePackageGeometry, initializeBasicData, pkg_index_ = cell_index,
\* assignDataPackageAddress(cell_index, new_data_pkg)
InitializePackage(c) ==
    /\ call # "none"
    /\ pc[c] = "init"
    /\ data_pkg_pool_' =
         [data_pkg_pool_ EXCEPT ![new_data_pkg[c]] =
            [@ EXCEPT !.initialized = TRUE, !.pkg_index_ = c]]
    /\ data_pkg_addrs_' = [data_pkg_addrs_ EXCEPT ![c] = new_data_pkg[c]]
    /\ pc' = [pc EXCEPT ![c] = "created"]
    /\ UNCHANGED <<core_data_pkgs_, inner_data_pkgs_, mutex_my_pool, pass_log,
                   new_data_pkg, GridRest>>

(***************************************************************************)
(* The classification pass.                                                *)
(***************************************************************************)
SingularForOutsideFirst(inside) ==
    IF inside THEN singular_data_pkgs_addrs_[2] ELSE singular_data_pkgs_addrs_[1]

\* The singular package of a cell that gets no package of its own.
SingularFor(inside) ==
    IF inside THEN singular_data_pkgs_addrs_[1] ELSE singular_data_pkgs_addrs_[2]

\* LevelSet::initializeDataInACell up to createDataPackage
initializeDataInACell(c) ==
    /\ Running("initializeDataInACell")
    /\ pc[c] = "todo"
    /\ ThreadFree
    /\ IF ProximityTest(c)
       THEN /\ pc' = [pc EXCEPT ![c] = "lock"]
            /\ UNCHANGED <<data_pkg_addrs_, pass_log>>
       ELSE /\ data_pkg_addrs_' =
                 [data_pkg_addrs_ EXCEPT ![c] = SingularFor(shape_[c].contain)]
            /\ pc' = [pc EXCEPT ![c] = "done"]
            /\ pass_log' = ItemDone(c)
    /\ UNCHANGED <<data_pkg_pool_, core_data_pkgs_, inner_data_pkgs_,
                   mutex_my_pool, new_data_pkg, GridRest>>

initializeDataInACellFromCoarseAnywhere(c) ==
    /\ Running("initializeDataInACellFromCoarse")
    /\ pc[c] = "todo"
    /\ ThreadFree
    /\ data_pkg_addrs_' =
         [data_pkg_addrs_ EXCEPT ![c] = SingularFor(coarse_mesh_[c].phi < 0)]
    /\ IF ProximityTest(c)
       THEN /\ pc' = [pc EXCEPT ![c] = "lock"]
            /\ UNCHANGED pass_log
       ELSE /\ pc' = [pc EXCEPT ![c] = "done"]
            /\ pass_log' = ItemDone(c)
    /\ UNCHANGED <<data_pkg_pool_, core_data_pkgs_, inner_data_pkgs_,
                   mutex_my_pool, new_data_pkg, GridRest>>

\* RefinedLevelSet::initializeDataInACellFromCoarse up to createDataPackage
initializeDataInACellFromCoarse(c) ==
    /\ Running("initializeDataInACellFromCoarse")
    /\ pc[c] = "todo"
    /\ ThreadFree
    /\ data_pkg_addrs_' =
         [data_pkg_addrs_ EXCEPT ![c] = SingularFor(coarse_mesh_[c].phi < 0)]
    /\ IF coarse_mesh_[c].core /\ ProximityTest(c)
       THEN /\ pc' = [pc EXCEPT ![c] = "lock"]
            /\ UNCHANGED pass_log
       ELSE /\ pc' = [pc EXCEPT ![c] = "done"]
            /\ pass_log' = ItemDone(c)
    /\ UNCHANGED <<data_pkg_pool_, core_data_pkgs_, inner_data_pkgs_,
                   mutex_my_pool, new_data_pkg, GridRest>>

\* new_data_pkg->is_core_pkg_ = true; core_data_pkgs_.push_back(new_data_pkg)
CorePackageCreated(c) ==
    /\ \/ Running("initializeDataInACell")
       \/ Running("initializeDataInACellFromCoarse")
    /\ pc[c] = "created"
    /\ data_pkg_pool_' =
         [data_pkg_pool_ EXCEPT ![new_data_pkg[c]].is_core_pkg_ = TRUE]
    /\ core_data_pkgs_' = push_back(core_data_pkgs_, new_data_pkg[c])
    /\ pc' = [pc EXCEPT ![c] = "done"]
    /\ pass_log' = ItemDone(c)
    /\ UNCHANGED <<data_pkg_addrs_, inner_data_pkgs_, mutex_my_pool,
                   new_data_pkg, GridRest>>

(***************************************************************************)
(* The inner-tagging pass.                                                 *)
(***************************************************************************)
tagACellIsInnerPackageNewOnly(c) ==
    /\ Running("tagACellIsInnerPackage")
    /\ pc[c] = "todo"
    /\ ThreadFree
    /\ IF ~isInnerPackage(c) \/ DataPackageFromCellIndex(c).is_core_pkg_
       THEN /\ pc' = [pc EXCEPT ![c] = "done"]
            /\ pass_log' = ItemDone(c)
       ELSE /\ pc' = [pc EXCEPT ![c] = "lock"]
            /\ UNCHANGED pass_log
    /\ UNCHANGED <<data_pkg_addrs_, data_pkg_pool_, core_data_pkgs_,
                   inner_data_pkgs_, mutex_my_pool, new_data_pkg, GridRest>>

\* LevelSet::tagACellIsInnerPackage up to its branches
tagACellIsInnerPackage(c) ==
    /\ Running("tagACellIsInnerPackage")
    /\ pc[c] = "todo"
    /\ ThreadFree
    /\ IF ~isInnerPackage(c)
       THEN /\ pc' = [pc EXCEPT ![c] = "done"]
            /\ pass_log' = ItemDone(c)
       ELSE /\ pc' = [pc EXCEPT ![c] =
                        IF DataPackageFromCellIndex(c).is_core_pkg_
                        THEN "core" ELSE "lock"]
            /\ UNCHANGED pass_log
    /\ UNCHANGED <<data_pkg_addrs_, data_pkg_pool_, core_data_pkgs_,
                   inner_data_pkgs_, mutex_my_pool, new_data_pkg, GridRest>>

\* The flags tagACellIsInnerPackage sets on a package it has created.
InnerFlagsAlsoCore(pkg) ==
    [pkg EXCEPT !.is_inner_pkg_ = TRUE, !.is_core_pkg_ = TRUE]

InnerFlags(pkg) == [pkg EXCEPT !.is_inner_pkg_ = TRUE]

\* current_data_pkg->is_inner_pkg_ = true; inner_data_pkgs_.push_back(...)
TagCorePackage(c) ==
    /\ Running("tagACellIsInnerPackage")
    /\ pc[c] = "core"
    /\ data_pkg_pool_' =
         [data_pkg_pool_ EXCEPT ![data_pkg_addrs_[c]].is_inner_pkg_ = TRUE]
    /\ inner_data_pkgs_' = push_back(inner_data_pkgs_, data_pkg_addrs_[c])
    /\ pc' = [pc EXCEPT ![c] = "done"]
    /\ pass_log' = ItemDone(c)
    /\ UNCHANGED <<data_pkg_addrs_, core_data_pkgs_, mutex_my_pool,
                   new_data_pkg, GridRest>>

\* new_data_pkg->is_inner_pkg_ = true; inner_data_pkgs_.push_back(new_data_pkg)
InnerPackageCreated(c) ==
    /\ Running("tagACellIsInnerPackage")
    /\ pc[c] = "created"
    /\ data_pkg_pool_' =
         [data_pkg_pool_ EXCEPT ![new_data_pkg[c]] = InnerFlags(@)]
    /\ inner_data_pkgs_' = push_back(inner_data_pkgs_, new_data_pkg[c])
    /\ pc' = [pc EXCEPT ![c] = "done"]
    /\ pass_log' = ItemDone(c)
    /\ UNCHANGED <<data_pkg_addrs_, core_data_pkgs_, mutex_my_pool,
                   new_data_pkg, GridRest>>

(***************************************************************************)
(* The address pass: the neighbour address tables of the package of an     *)
(* inner cell are set from the cell -> package bindings.                   *)
(***************************************************************************)
initializePackageAddressesInACell(pkg) ==
    IF pkg.is_inner_pkg_ THEN [pkg EXCEPT !.addrs = "wired"] ELSE pkg

initializeAddressesInACell(c) ==
    /\ Running("initializeAddressesInACell")
    /\ pc[c] = "todo"
    /\ data_pkg_pool_' =
         [data_pkg_pool_ EXCEPT ![data_pkg_addrs_[c]] =
            initializePackageAddressesInACell(@)]
    /\ pc' = [pc EXCEPT ![c] = "done"]
    /\ pass_log' = ItemDone(c)
    /\ UNCHANGED <<data_pkg_addrs_, core_data_pkgs_, inner_data_pkgs_,
                   mutex_my_pool, new_data_pkg, GridRest>>

(***************************************************************************)
(* The package passes.  A package records which of its derived fields have *)
(* been computed from its present phi_.                                    *)
(***************************************************************************)
\* computeNormalizedGradient(phi_addrs_, n_addrs_)
computeNormalDirection(pkg) ==
    [pkg EXCEPT !.computed = @ \cup {"n_"}]

\* computeGradient(phi_addrs_, none_normalized_n_addrs_)
computeNoneNormalizedNormalDirection(pkg) ==
    [pkg EXCEPT !.computed = @ \cup {"none_normalized_n_"}]

computeKernelIntegrals(pkg) ==
    [pkg EXCEPT !.computed = @ \cup {"kernel_weight_", "kernel_gradient_"}]

\* One relaxation step: phi_ changes.
stepReinitialization(pkg) == [pkg EXCEPT !.computed = {}]

\* near_interface_id_ is set from phi_.
markNearInterfaceOfPackage(pkg) == pkg

\* phi_ is recomputed from the located interface.
redistanceInterfaceOfPackage(pkg) == [pkg EXCEPT !.computed = {}]

PackageWork(functor, item, pkg_after) ==
    /\ Running(functor)
    /\ item \in PassItems(ThePass.over) \ ThePass.done
    /\ data_pkg_pool_' = [data_pkg_pool_ EXCEPT ![item[1]] = pkg_after]
    /\ pass_log' = ItemDone(item)
    /\ UNCHANGED <<data_pkg_addrs_, core_data_pkgs_, inner_data_pkgs_,
                   mutex_my_pool, pc, new_data_pkg, GridRest>>

updateNormalDirectionForAPackage(item) ==
    PackageWork("updateNormalDirectionForAPackage", item,
                computeNormalDirection(data_pkg_pool_[item[1]]))

updateNoneNormalizedNormalDirectionForAPackage(item) ==
    PackageWork("updateNoneNormalizedNormalDirectionForAPackage", item,
                computeNoneNormalizedNormalDirection(data_pkg_pool_[item[1]]))

updateKernelIntegralsForAPackage(item) ==
    PackageWork("updateKernelIntegralsForAPackage", item,
                computeKernelIntegrals(data_pkg_pool_[item[1]]))

stepReinitializationForAPackage(item) ==
    PackageWork("stepReinitializationForAPackage", item,
                stepReinitialization(data_pkg_pool_[item[1]]))

markNearInterfaceForAPackage(item) ==
    PackageWork("markNearInterfaceForAPackage", item,
                markNearInterfaceOfPackage(data_pkg_pool_[item[1]]))

redistanceInterfaceForAPackage(item) ==
    PackageWork("redistanceInterfaceForAPackage", item,
                redistanceInterfaceOfPackage(data_pkg_pool_[item[1]]))

(***************************************************************************)
(* A grid under construction: the two singular packages exist, no cell is  *)
(* bound, and the constructor is about to start its classification pass.   *)
(***************************************************************************)
CoarsePhi == {-1, 0}

ShapeAnswers(kind) ==
    [Cells -> [measure : 0..MaxMeasure,
               contain : IF kind = "LevelSet" THEN BOOLEAN ELSE {FALSE}]]

CoarseAnswers(kind) ==
    [Cells -> [phi : IF kind = "LevelSet" THEN {0} ELSE CoarsePhi,
               core : IF kind = "LevelSet" THEN {FALSE} ELSE BOOLEAN]]

InitGrid ==
    /\ grid_kind \in {"LevelSet", "RefinedLevelSet"}
    /\ shape_ \in ShapeAnswers(grid_kind)
    /\ coarse_mesh_ \in CoarseAnswers(grid_kind)
    /\ data_pkg_addrs_ = [c \in Cells |-> 0]
    /\ data_pkg_pool_ = [a \in {1, 2} |-> SingularPackage]
    /\ core_data_pkgs_ = [a \in Addresses |-> 0]
    /\ inner_data_pkgs_ = [a \in Addresses |-> 0]
    /\ mutex_my_pool = 0
    /\ call = "constructor"
    /\ pass_log = <<>>
    /\ pc = [c \in Cells |-> "todo"]
    /\ new_data_pkg = [c \in Cells |-> 0]
    /\ clean_calls = 0
    /\ LevelsIdle
    /\ BoundIdle
    /\ MultiIdle

createDataPackage(c) ==
    \/ Lock(c)
    \/ PoolMalloc(c)
    \/ Unlock(c)
    \/ InitializePackage(c)

NextGrid ==
    \/ StartPass
    \/ ReturnFromCall
    \/ CallCleanInterface
    \/ \E c \in Cells :
        \/ initializeDataInACell(c)
        \/ initializeDataInACellFromCoarse(c)
        \/ createDataPackage(c)
        \/ CorePackageCreated(c)
        \/ tagACellIsInnerPackage(c)
        \/ TagCorePackage(c)
        \/ InnerPackageCreated(c)
        \/ initializeAddressesInACell(c)
    \/ \E item \in PackageItems(inner_data_pkgs_) :
        \/ updateNormalDirectionForAPackage(item)
        \/ updateNoneNormalizedNormalDirectionForAPackage(item)
        \/ updateKernelIntegralsForAPackage(item)
        \/ stepReinitializationForAPackage(item)
    \/ \E item \in PackageItems(core_data_pkgs_) :
        \/ markNearInterfaceForAPackage(item)
        \/ redistanceInterfaceForAPackage(item)

SpecGrid == InitGrid /\ [][NextGrid]_vars

(***************************************************************************)
(* Properties of the construction and of cleanInterface.                   *)
(***************************************************************************)
\* The constructor's passes are in pass_log until cleanInterface is called.
Constructing == clean_calls = 0

PassFinished(functor) ==
    \E k \in 1..Len(pass_log) :
        pass_log[k].functor = functor /\ Complete(pass_log[k])

Classified ==
    \/ ~Constructing
    \/ PassFinished("initializeDataInACell")
    \/ PassFinished("initializeDataInACellFromCoarse")

Tagged == ~Constructing \/ PassFinished("tagACellIsInnerPackage")

RECURSIVE Collapse(_)
\* The member functions that ran the passes of a log, one entry per run of
\* consecutive passes of the same member function.
Collapse(log) ==
    IF log = <<>> THEN <<>>
    ELSE IF Len(log) >= 2 /\ log[1].stage = log[2].stage
    THEN Collapse(Tail(log))
    ELSE <<log[1].stage>> \o Collapse(Tail(log))

IsPrefix(s, t) ==
    Len(s) <= Len(t) /\ \A i \in 1..Len(s) : s[i] = t[i]

CleanOrder ==
    <<"markNearInterface", "redistanceInterface", "reinitializeLevelSet",
      "updateNormalDirection", "updateKernelIntegrals">>

CleanReturned == call = "none" /\ clean_calls > 0

\* C6: cleanInterface runs mark near-interface, redistance, reinitialize,
\* refresh normals, refresh kernel integrals in this order, none skipped or
\* repeated, and each pass has run on all of its packages before the next
\* one begins.
C6_CleanInterfaceOrder ==
    (~Constructing) =>
        /\ IsPrefix(Collapse(pass_log), CleanOrder)
        /\ \A k \in 1..Len(pass_log) :
              /\ pass_log[k].done \subseteq PassItems(pass_log[k].over)
              /\ k < Len(pass_log) => Complete(pass_log[k])
        /\ CleanReturned =>
              /\ Collapse(pass_log) = CleanOrder
              /\ Complete(ThePass)

\* cleanInterface has returned on a grid with core and inner packages.
C6_Witness ==
    /\ CleanReturned
    /\ \E a \in Addresses : core_data_pkgs_[a] > 0
    /\ \E a \in Addresses : inner_data_pkgs_[a] > 0 /\ core_data_pkgs_[a] = 0

Wired(a) == data_pkg_pool_[a].addrs = "wired"

\* C7: during construction no address table is populated before every cell
\* is classified and every core and inner package is allocated and flagged,
\* and no numeric pass starts before the address tables of all cells are
\* populated.
C7_AddressesAfterTagging ==
    Constructing =>
        /\ (\E a \in Allocated : Wired(a)) =>
              /\ Classified
              /\ Tagged
              /\ \A c \in Cells :
                    /\ data_pkg_addrs_[c] # 0
                    /\ pc[c] \in {"todo", "done"}
                    /\ isInnerPackage(c) =>
                          DataPackageFromCellIndex(c).is_inner_pkg_
        /\ (\E a \in Allocated : data_pkg_pool_[a].computed # {}) =>
              /\ PassFinished("initializeAddressesInACell")
              /\ \A a \in Allocated :
                    data_pkg_pool_[a].is_inner_pkg_ => Wired(a)

\* The constructor has returned with wired packages and computed normals.
C7_Witness ==
    /\ Constructing
    /\ call = "none"
    /\ \E a \in Allocated : Wired(a) /\ "n_" \in data_pkg_pool_[a].computed

CoreCells ==
    {c \in Cells :
        data_pkg_addrs_[c] # 0 /\ DataPackageFromCellIndex(c).is_core_pkg_}

InnerCells ==
    {c \in Cells :
        data_pkg_addrs_[c] # 0 /\ DataPackageFromCellIndex(c).is_inner_pkg_}

\* The cells the inputs of the construction make core.
CoreOfInputs ==
    {c \in Cells :
        /\ shape_[c].measure < grid_spacing_
        /\ grid_kind = "RefinedLevelSet" => coarse_mesh_[c].core}

\* C8: whatever the interleaving of the work items of the classification
\* and of the inner-tagging pass, the cells bound to core packages and the
\* cells bound to inner packages are the same: they depend on the inputs only.
C8_AssignmentIndependentOfOrder ==
    Tagged =>
        /\ CoreCells = CoreOfInputs
        /\ InnerCells = UNION {Neighbours(c) : c \in CoreOfInputs}

\* Both passes are over, and a cell that is not core has become inner.
C8_Witness ==
    /\ Tagged
    /\ Constructing
    /\ CoreCells # {}
    /\ InnerCells \ CoreCells # {}
    /\ InnerCells # Cells

\* Work items between mutex_my_pool.lock() and mutex_my_pool.unlock().
InAllocation == {c \in Cells : pc[c] \in {"malloc", "unlock"}}

\* C9: at most one work item is inside the pool allocation at a time, and
\* the mutex is held for the allocation only: it is free again when the
\* package is initialised and the cell binding written.
C9_AllocationExclusive ==
    (grid_kind # "none") =>
        /\ Cardinality(InAllocation) <= 1
        /\ \A c \in Cells : mutex_my_pool = c <=> c \in InAllocation
        /\ mutex_my_pool = 0 <=> InAllocation = {}

\* One work item allocates while another initialises its package.
C9_Witness ==
    \E c \in Cells, d \in Cells :
        /\ pc[c] = "malloc"
        /\ pc[d] = "init"
        /\ mutex_my_pool = c

\* C10 (as amended): after the classification pass, a cell's package is
\* core iff the proximity test holds for the cell and, in a RefinedGrid, the
\* cell position also lies within the coarse grid's core region.
C10_CoreIffProximityInCoarseCore ==
    Classified =>
        \A c \in Cells :
            DataPackageFromCellIndex(c).is_core_pkg_ <=>
                /\ shape_[c].measure < grid_spacing_
                /\ grid_kind = "RefinedLevelSet" => coarse_mesh_[c].core

\* A refined grid is classified; one cell passing the test is core, another
\* passing it lies outside the coarse core region and is not.
C10_Witness ==
    /\ grid_kind = "RefinedLevelSet"
    /\ Classified
    /\ \E c \in Cells, d \in Cells :
          /\ DataPackageFromCellIndex(c).is_core_pkg_
          /\ shape_[d].measure < grid_spacing_
          /\ ~coarse_mesh_[d].core
          /\ ~DataPackageFromCellIndex(d).is_core_pkg_

\* C10 as stated: after the classification pass of any Grid, a RefinedGrid
\* included, a cell's package is core iff the proximity test holds.
C10_Original ==
    Classified =>
        \A c \in Cells :
            DataPackageFromCellIndex(c).is_core_pkg_ <=>
                shape_[c].measure < grid_spacing_

\* The classification pass is over and the inner-tagging pass has not begun.
JustClassified ==
    /\ Constructing
    /\ Len(pass_log) = 1
    /\ Complete(pass_log[1])

Singulars == {singular_data_pkgs_addrs_[k] : k \in 1..2}

\* The uniform signed distance a singular package holds.
PhiOfSingular(a) ==
    SingularPhi[CHOOSE k \in 1..2 : singular_data_pkgs_addrs_[k] = a]

\* C11: after the classification pass of a Grid every cell references one
\* allocated package, and a cell failing the core test references a singular
\* package (until the inner-tagging pass gives it a package of its own): the
\* one holding -far if the shape contains the cell position, the one holding
\* +far otherwise.
C11_SingularOfCorrectSign ==
    (grid_kind = "LevelSet" /\ Classified) =>
        \A c \in Cells :
            /\ data_pkg_addrs_[c] \in Allocated
            /\ ~(shape_[c].measure < grid_spacing_) =>
                  /\ JustClassified => data_pkg_addrs_[c] \in Singulars
                  /\ data_pkg_addrs_[c] \in Singulars =>
                        IF shape_[c].contain
                        THEN PhiOfSingular(data_pkg_addrs_[c]) = -far_field_distance
                        ELSE PhiOfSingular(data_pkg_addrs_[c]) = far_field_distance

\* A classified Grid with a far cell inside the shape, a far cell outside
\* it and a core cell.
C11_Witness ==
    /\ grid_kind = "LevelSet"
    /\ JustClassified
    /\ \E c \in Cells, d \in Cells, e \in Cells :
          /\ shape_[c].measure >= grid_spacing_ /\ shape_[c].contain
          /\ data_pkg_addrs_[c] = singular_data_pkgs_addrs_[1]
          /\ shape_[d].measure >= grid_spacing_ /\ ~shape_[d].contain
          /\ data_pkg_addrs_[d] = singular_data_pkgs_addrs_[2]
          /\ DataPackageFromCellIndex(e).is_core_pkg_

\* C12: after the classification pass of a RefinedGrid every core package
\* belongs to a cell within the coarse grid's core region, and a cell without
\* a real package is bound to the singular package the coarse signed
\* distance chooses: inside-far when it is negative, outside-far otherwise.
C12_RefinedCoreWithinCoarseCore ==
    (grid_kind = "RefinedLevelSet" /\ Classified) =>
        \A c \in Cells :
            /\ data_pkg_addrs_[c] \in Allocated
            /\ DataPackageFromCellIndex(c).is_core_pkg_ => coarse_mesh_[c].core
            /\ (JustClassified /\ ~coarse_mesh_[c].core) =>
                  data_pkg_addrs_[c] \in Singulars
            /\ data_pkg_addrs_[c] \in Singulars =>
                  IF coarse_mesh_[c].phi < 0
                  THEN PhiOfSingular(data_pkg_addrs_[c]) = -far_field_distance
                  ELSE PhiOfSingular(data_pkg_addrs_[c]) = far_field_distance

\* A classified RefinedGrid: a core cell, a cell near the shape outside the
\* coarse core region bound inside-far, and a cell bound outside-far.
C12_Witness ==
    /\ grid_kind = "RefinedLevelSet"
    /\ JustClassified
    /\ \E c \in Cells, d \in Cells, e \in Cells :
          /\ DataPackageFromCellIndex(c).is_core_pkg_
          /\ shape_[d].measure < grid_spacing_ /\ ~coarse_mesh_[d].core
          /\ coarse_mesh_[d].phi < 0
          /\ data_pkg_addrs_[d] = singular_data_pkgs_addrs_[1]
          /\ coarse_mesh_[e].phi >= 0
          /\ data_pkg_addrs_[e] = singular_data_pkgs_addrs_[2]

(***************************************************************************)
(* MultilevelLevelSet: the direct probes, probeIsWithinMeshBound and       *)
(* cleanInterface.  For one position, a level is given by what its         *)
(* LevelSet answers there: value, the content of its fields as a probe     *)
(* reads them; core, isWithinCorePackage(position); bounded, its           *)
(* probeIsWithinMeshBound(position); and cleaned, the runs of its          *)
(* cleanInterface.                                                         *)
(***************************************************************************)
LevelSetStates ==
    [value : FieldValues, core : BOOLEAN, bounded : BOOLEAN, cleaned : {0}]

LevelSetHierarchies ==
    UNION {[1..n -> LevelSetStates] : n \in 1..MaxLevels}

RECURSIVE ScanFirstCore(_, _)
ScanFirstCore(sets, level) ==
    IF level > Len(sets) THEN 0
    ELSE IF sets[level].core THEN level - 1
    ELSE ScanFirstCore(sets, level + 1)

getProbeLevelFromCoarsest(sets) == ScanFirstCore(sets, 1)

RECURSIVE ScanProbeLevel(_, _)
ScanProbeLevel(sets, level) ==
    IF level = 0 THEN 0
    ELSE IF sets[level].core THEN level - 1
    ELSE ScanProbeLevel(sets, level - 1)

\* MultilevelLevelSet::getProbeLevel
getProbeLevel(sets) == ScanProbeLevel(sets, Len(sets))

\* LevelSet::probeSignedDistance, probeNormalDirection and
\* probeNoneNormalizedNormalDirection: probeMesh on the named field.
ProbeMesh(level_set, field) == [field |-> field, value |-> level_set.value]

\* mesh_levels_[getProbeLevel(position)]->probe...(position)
DirectProbe(op, field) ==
    /\ ml_pc = "idle"
    /\ ml_op' = op
    /\ probe_level' = getProbeLevel(level_sets)
    /\ ml_result' = ProbeMesh(level_sets[probe_level' + 1], field)
    /\ ml_pc' = "returned"
    /\ UNCHANGED <<level_sets, lvars, bvars, gvars>>

probeSignedDistance == DirectProbe("probeSignedDistance", "phi_")

probeNormalDirection == DirectProbe("probeNormalDirection", "n_")

probeNoneNormalizedNormalDirection ==
    DirectProbe("probeNoneNormalizedNormalDirection", "none_normalized_n_")

AnyLevelWithinMeshBound(sets) == \E l \in 1..Len(sets) : sets[l].bounded

RECURSIVE ScanWithinMeshBound(_, _)
\* The loop over the levels, left at the first one that is out of bound.
ScanWithinMeshBound(sets, l) ==
    IF l > Len(sets) THEN TRUE
    ELSE IF ~sets[l].bounded THEN FALSE
    ELSE ScanWithinMeshBound(sets, l + 1)

EveryLevelWithinMeshBound(sets) == ScanWithinMeshBound(sets, 1)

\* MultilevelLevelSet::probeIsWithinMeshBound
MultilevelProbeIsWithinMeshBound ==
    /\ ml_pc = "idle"
    /\ ml_op' = "probeIsWithinMeshBound"
    /\ ml_result' = EveryLevelWithinMeshBound(level_sets)
    /\ ml_pc' = "returned"
    /\ UNCHANGED <<level_sets, probe_level, lvars, bvars, gvars>>

\* LevelSet::cleanInterface on one level: its field values change.
LevelSetCleanInterface(level_set, v) ==
    [level_set EXCEPT !.value = v, !.cleaned = @ + 1]

CleanEveryLevel(sets, v) ==
    [l \in 1..Len(sets) |-> LevelSetCleanInterface(sets[l], v)]

\* mesh_levels_.back()->cleanInterface()
CleanBack(sets, v) ==
    [sets EXCEPT ![Len(sets)] = LevelSetCleanInterface(@, v)]

\* MultilevelLevelSet::cleanInterface
MultilevelCleanInterface(v) ==
    /\ ml_pc = "idle"
    /\ level_sets[Len(level_sets)].cleaned < MaxCleanCalls
    /\ ml_op' = "cleanInterface"
    /\ level_sets' = CleanBack(level_sets, v)
    /\ ml_result' = <<>>
    /\ ml_pc' = "returned"
    /\ UNCHANGED <<probe_level, lvars, bvars, gvars>>

ReturnFromMultilevel ==
    /\ ml_pc = "returned"
    /\ ml_pc' = "idle"
    /\ ml_op' = "none"
    /\ probe_level' = 0
    /\ ml_result' = <<>>
    /\ UNCHANGED <<level_sets, lvars, bvars, gvars>>

InitMulti ==
    /\ level_sets \in LevelSetHierarchies
    /\ ml_pc = "idle"
    /\ ml_op = "none"
    /\ probe_level = 0
    /\ ml_result = <<>>
    /\ LevelsIdle
    /\ BoundIdle
    /\ GridIdle

NextMulti ==
    \/ probeSignedDistance
    \/ probeNormalDirection
    \/ probeNoneNormalizedNormalDirection
    \/ MultilevelProbeIsWithinMeshBound
    \/ \E v \in FieldValues : MultilevelCleanInterface(v)
    \/ ReturnFromMultilevel

SpecMulti == InitMulti /\ [][NextMulti]_vars

(***************************************************************************)
(* Properties of the direct calls on a MultilevelLevelSet.                 *)
(***************************************************************************)
\* C13: a call of MultilevelGrid.cleanInterface runs the cleaning pipeline
\* of the finest level, once, and leaves every coarser level as it was.
C13_CleansFinestOnly ==
    [][(ml_pc = "idle" /\ ml_op' = "cleanInterface") =>
          /\ Len(level_sets') = Len(level_sets)
          /\ level_sets'[Len(level_sets)].cleaned =
                level_sets[Len(level_sets)].cleaned + 1
          /\ \A l \in 1..(Len(level_sets) - 1) :
                level_sets'[l] = level_sets[l]]_vars

\* cleanInterface has returned on a hierarchy of three levels.
C13_Witness ==
    /\ ml_op = "cleanInterface"
    /\ ml_pc = "returned"
    /\ Len(level_sets) = 3
    /\ level_sets[3].cleaned = 1
    /\ level_sets[1].cleaned = 0

DirectProbeDone ==
    /\ ml_pc = "returned"
    /\ ml_op \in {"probeSignedDistance", "probeNormalDirection",
                  "probeNoneNormalizedNormalDirection"}

\* The field a direct probe is to read.
FieldOf(op) ==
    IF op = "probeSignedDistance" THEN "phi_"
    ELSE IF op = "probeNormalDirection" THEN "n_"
    ELSE "none_normalized_n_"

CoreLevels == {l \in 1..Len(level_sets) : level_sets[l].core}

\* The finest level whose core region contains the position, the coarsest
\* level when there is none.
FinestCoreLevel ==
    IF CoreLevels = {} THEN 1
    ELSE CHOOSE l \in CoreLevels : \A k \in CoreLevels : k <= l

\* C14: a direct probe of the MultilevelGrid answers from the finest level
\* whose core region contains the position, and from the coarsest level
\* (index 0) when no level's core region contains it.
C14_ProbeFromFinestCoreLevel ==
    DirectProbeDone =>
        /\ probe_level + 1 = FinestCoreLevel
        /\ ml_result = [field |-> FieldOf(ml_op),
                        value |-> level_sets[FinestCoreLevel].value]

\* A direct probe answered from the middle level of three, the coarsest
\* level containing the position too and holding another value.
C14_Witness ==
    /\ DirectProbeDone
    /\ Len(level_sets) = 3
    /\ CoreLevels = {1, 2}
    /\ probe_level = 1
    /\ level_sets[1].value # level_sets[2].value

\* No level contains the position: the coarsest level answers.
C14_WitnessDefault ==
    /\ DirectProbeDone
    /\ Len(level_sets) = 3
    /\ CoreLevels = {}
    /\ probe_level = 0

\* C15: MultilevelGrid.probeIsWithinMeshBound returns true iff the
\* probeIsWithinMeshBound of every level returns true.
C15_BoundedIffEveryLevel ==
    (ml_pc = "returned" /\ ml_op = "probeIsWithinMeshBound") =>
        (ml_result = TRUE <=>
            \A l \in 1..Len(level_sets) : level_sets[l].bounded)

\* The call returned false with the coarsest level in bound and a finer
\* one out of bound.
C15_Witness ==
    /\ ml_pc = "returned"
    /\ ml_op = "probeIsWithinMeshBound"
    /\ Len(level_sets) = 3
    /\ level_sets[1].bounded
    /\ ~level_sets[3].bounded
    /\ ml_result = FALSE

(***************************************************************************)
(* Further properties of the blended probes (SpecLevels).                  *)
(***************************************************************************)
\* C16: when the target h lies between the ratio r_c of the level c that
\* getMeshLevel returned and the ratio r_{c+1} of the next-finer level, the
\* blended probes return alpha * V_c + (1 - alpha) * V_{c+1} with
\* alpha = (r_{c+1} - h) / (r_{c+1} - r_c), and alpha lies in [0, 1].
C16_LinearBlend ==
    (/\ ProbeDone
     /\ Selected < total_levels_
     /\ Ratio(Selected) <= h_ratio
     /\ h_ratio <= Ratio(Selected + 1)) =>
        /\ lv_pc = "returned"
        /\ Ratio(Selected + 1) - Ratio(Selected) > 0
        /\ 0 <= Ratio(Selected + 1) - h_ratio
        /\ Ratio(Selected + 1) - h_ratio <= Ratio(Selected + 1) - Ratio(Selected)
        /\ result.den # 0
        /\ result.num * (Ratio(Selected + 1) - Ratio(Selected)) =
              result.den *
                ((Ratio(Selected + 1) - h_ratio) * level_values[Selected]
                 + (h_ratio - Ratio(Selected)) * level_values[Selected + 1])

\* A blended probe returned for a target strictly between two levels whose
\* probe values differ, nearer to the coarse one.
C16_Witness ==
    /\ ProbeDone
    /\ lv_pc = "returned"
    /\ Selected < total_levels_
    /\ Ratio(Selected) < h_ratio
    /\ h_ratio - Ratio(Selected) < Ratio(Selected + 1) - h_ratio
    /\ level_values[Selected] # level_values[Selected + 1]

\* C17: whenever getMeshLevel returns normally, the blended probes read only
\* the levels 0 .. total_levels_ - 1: coarse_level + 1 is not past the
\* finest level.
C17_LevelIndicesInRange ==
    ProbeDone =>
        /\ coarse_level \in 0..(total_levels_ - 1)
        /\ coarse_level + 1 \in 0..(total_levels_ - 1)

\* What the code keeps: the index is in range exactly when the target lies
\* Eps or more below the finest level's ratio.
C17_InRangeBelowFinest ==
    ProbeDone =>
        (coarse_level + 1 \in 0..(total_levels_ - 1) <=>
            h_ratio - Ratio(total_levels_) <= -Eps)

(***************************************************************************)
(* Further properties of the construction and of cleanInterface (SpecGrid).*)
(***************************************************************************)
\* C18: once the inner-tagging pass is over, the inner collection contains
\* the core collection: every core package is flagged inner and is in the
\* inner collection exactly once; and every cell the connectivity test marks
\* inner that is not core is bound to a package of its own, allocated for
\* it, which is neither singular package.
C18_InnerContainsCore ==
    Tagged =>
        /\ \A a \in Addresses :
              /\ core_data_pkgs_[a] > 0 => inner_data_pkgs_[a] > 0
              /\ inner_data_pkgs_[a] <= 1
        /\ \A a \in Allocated :
              data_pkg_pool_[a].is_core_pkg_ =>
                  /\ data_pkg_pool_[a].is_inner_pkg_
                  /\ core_data_pkgs_[a] = 1
                  /\ inner_data_pkgs_[a] = 1
        /\ \A c \in Cells :
              (isInnerPackage(c) /\ ~DataPackageFromCellIndex(c).is_core_pkg_) =>
                  /\ data_pkg_addrs_[c] \in Allocated \ Singulars
                  /\ DataPackageFromCellIndex(c).is_inner_pkg_
                  /\ DataPackageFromCellIndex(c).pkg_index_ = c
                  /\ inner_data_pkgs_[data_pkg_addrs_[c]] = 1
                  /\ core_data_pkgs_[data_pkg_addrs_[c]] = 0
                  /\ \A d \in Cells \ {c} :
                        data_pkg_addrs_[d] # data_pkg_addrs_[c]

\* The constructor has returned: a core cell between two cells that were
\* singular and are inner now.
C18_Witness ==
    /\ Constructing
    /\ call = "none"
    /\ \E c \in Cells :
          /\ DataPackageFromCellIndex(c).is_core_pkg_
          /\ Cardinality({d \in Neighbours(c) :
                /\ ~DataPackageFromCellIndex(d).is_core_pkg_
                /\ DataPackageFromCellIndex(d).is_inner_pkg_}) = 2

\* The packages that came from data_pkg_pool_.malloc().
RealPackages == Allocated \ Singulars

\* The cells whose work items have called createDataPackage.
Creators(a) == {c \in Cells : new_data_pkg[c] = a}

\* The cells that qualify for a real package: core, or inner.
QualifyingCells == CoreOfInputs \cup UNION {Neighbours(c) : c \in CoreOfInputs}

CreatedOncePerCell ==
    /\ \A a \in RealPackages : Cardinality(Creators(a)) = 1
    /\ \A c \in Cells :
          /\ new_data_pkg[c] # 0 => new_data_pkg[c] \in RealPackages
          /\ data_pkg_addrs_[c] \in RealPackages =>
                /\ data_pkg_addrs_[c] = new_data_pkg[c]
                /\ DataPackageFromCellIndex(c).pkg_index_ = c
                /\ \A d \in Cells \ {c} :
                      data_pkg_addrs_[d] # data_pkg_addrs_[c]
    /\ \A a \in RealPackages :
          data_pkg_pool_[a].initialized =>
              /\ data_pkg_pool_[a].pkg_index_ \in Cells
              /\ data_pkg_addrs_[data_pkg_pool_[a].pkg_index_] = a
    /\ Tagged =>
          /\ {c \in Cells : data_pkg_addrs_[c] \in RealPackages} = QualifyingCells
          /\ Cardinality(RealPackages) = Cardinality(QualifyingCells)

\* C19: under every interleaving of the classification and inner-tagging
\* passes a real package is created at most once per cell and, once both
\* passes are over, exactly once per core or inner cell; no two cells share
\* a real package; the pkg_index_ of a real package is the cell bound to it;
\* and no step releases a package.
C19_OnePackagePerQualifyingCell ==
    /\ [](grid_kind # "none" => CreatedOncePerCell)
    /\ [][\A a \in Allocated :
             /\ a \in DOMAIN data_pkg_pool_'
             /\ data_pkg_pool_[a].pkg_index_ # 0 =>
                   data_pkg_pool_'[a].pkg_index_ = data_pkg_pool_[a].pkg_index_]_vars

\* Two work items are creating their packages at the same time, one
\* allocated and one being initialised.
C19_Witness ==
    \E c \in Cells, d \in Cells :
        /\ c # d
        /\ pc[c] = "unlock"
        /\ pc[d] = "init"
        /\ new_data_pkg[c] # new_data_pkg[d]
        /\ Running("tagACellIsInnerPackage")

\* What of a package is not a field value: its flags, its owning cell and
\* its address tables.
Identity(pkg) ==
    [pkg_index_ |-> pkg.pkg_index_, is_core_pkg_ |-> pkg.is_core_pkg_,
     is_inner_pkg_ |-> pkg.is_inner_pkg_, addrs |-> pkg.addrs]

\* C20: no step of a call of cleanInterface on a built Grid, the first call
\* or a later one, changes the binding of a cell, the core or the inner
\* collection, a core or inner flag or the set of allocated packages: only
\* field values inside the packages change.
C20_CleanInterfaceKeepsStructure ==
    [][(call = "cleanInterface" \/ call' = "cleanInterface") =>
          /\ data_pkg_addrs_' = data_pkg_addrs_
          /\ core_data_pkgs_' = core_data_pkgs_
          /\ inner_data_pkgs_' = inner_data_pkgs_
          /\ DOMAIN data_pkg_pool_' = DOMAIN data_pkg_pool_
          /\ \A a \in Allocated :
                Identity(data_pkg_pool_'[a]) = Identity(data_pkg_pool_[a])]_vars

\* The last call of cleanInterface has returned: the fields of an inner
\* package that is not core were rewritten.
C20_Witness ==
    /\ CleanReturned
    /\ clean_calls = MaxCleanCalls
    /\ \E a \in Allocated :
          /\ data_pkg_pool_[a].is_inner_pkg_
          /\ ~data_pkg_pool_[a].is_core_pkg_
          /\ "none_normalized_n_" \notin data_pkg_pool_[a].computed
          /\ "n_" \in data_pkg_pool_[a].computed

\* The work items whose next statement is a push_back on core_data_pkgs_ or
\* on inner_data_pkgs_: they have left createDataPackage, or found their
\* cell's package core, and hold no lock.
CollectionWriters == {c \in Cells : pc[c] \in {"created", "core"}}

\* C21: within the classification pass and within the inner-tagging pass
\* the package pool is the only shared object several work items write at
\* the same time: no two work items are at a write of the core or of the
\* inner collection together, and no work item writes the table entry of a
\* cell that is not its own.
C21_OnlyPoolSharedWrites ==
    /\ [](grid_kind # "none" =>
            \/ Cardinality(CollectionWriters) <= 1
            \/ \E c \in CollectionWriters : mutex_my_pool = c)
    /\ [][\A c \in Cells :
             data_pkg_addrs_'[c] # data_pkg_addrs_[c] => pc'[c] # pc[c]]_vars

\* What the code keeps: the pool is written under the mutex only, and the
\* table is written by every work item at its own cell only.
C21_PoolAndTableOnly ==
    /\ [](grid_kind # "none" =>
            Cardinality({c \in Cells : pc[c] = "malloc"}) <= 1)
    /\ [][\A c \in Cells :
             data_pkg_addrs_'[c] # data_pkg_addrs_[c] => pc'[c] # pc[c]]_vars

(***************************************************************************)
(* The construction and cleanInterface with the scheduling of the parallel *)
(* iterators: a pass that has work left goes on, a call whose pass is over *)
(* goes on to its next statement.                                          *)
(***************************************************************************)
SpecGridFair == SpecGrid /\ WF_vars(NextGrid)

\* The sweeps of reinitializeLevelSet run so far in this call of cleanInterface.
ReinitSweepsRun ==
    {k \in 1..Len(pass_log) : pass_log[k].stage = "reinitializeLevelSet"}

ReinitStarted == ~Constructing /\ ReinitSweepsRun # {}

\* reinitializeLevelSet has returned: cleanInterface is at a later statement.
ReinitReturned ==
    /\ ~Constructing
    /\ \E k \in 1..Len(pass_log) : pass_log[k].stage = "updateNormalDirection"

SweepsInOrder ==
    /\ Cardinality(ReinitSweepsRun) <= 50
    /\ ReinitReturned => Cardinality(ReinitSweepsRun) = 50
    /\ \A k \in ReinitSweepsRun :
          /\ pass_log[k].functor = "stepReinitializationForAPackage"
          /\ pass_log[k].done \subseteq PackageItems(inner_data_pkgs_)
          /\ k < Len(pass_log) =>
                pass_log[k].done = PackageItems(inner_data_pkgs_)

\* A step of a sweep: one reinitialization step on one inner package that
\* the sweep has not yet visited, and nothing else.
SweepStep ==
    (/\ ReinitStarted
     /\ ThePass.stage = "reinitializeLevelSet"
     /\ Len(pass_log') = Len(pass_log)
     /\ <<pass_log, data_pkg_pool_>>' # <<pass_log, data_pkg_pool_>>) =>
        \E item \in PackageItems(inner_data_pkgs_) \ ThePass.done :
            /\ pass_log' = ItemDone(item)
            /\ data_pkg_pool_[item[1]].is_inner_pkg_
            /\ data_pkg_pool_' =
                  [data_pkg_pool_ EXCEPT
                     ![item[1]] = stepReinitialization(data_pkg_pool_[item[1]])]

\* C22: reinitializeLevelSet ends after exactly 50 sweeps; a sweep begins
\* only when the one before it has run on every inner package; and a sweep
\* applies one reinitialization step to each inner package and to no other
\* package.
C22_FiftySequentialSweeps ==
    /\ [](~Constructing => SweepsInOrder)
    /\ [][SweepStep]_vars
    /\ (ReinitStarted ~> ReinitReturned)

\* The last sweep is running on a grid with several inner packages, one of
\* them done.
C22_Witness ==
    /\ ReinitStarted
    /\ Cardinality(ReinitSweepsRun) = 50
    /\ ThePass.stage = "reinitializeLevelSet"
    /\ ThePass.done # {}
    /\ ThePass.done # PackageItems(inner_data_pkgs_)
    /\ PackageItems(core_data_pkgs_) # PackageItems(inner_data_pkgs_)

\* The fields of a package that are derived from phi_.
DerivedFields ==
    {"n_", "none_normalized_n_", "kernel_weight_", "kernel_gradient_"}

InnerPackages == {a \in Allocated : data_pkg_pool_[a].is_inner_pkg_}

\* C23: whenever the constructor or cleanInterface has returned, every
\* derived field of every inner package (normal, non-normalized gradient,
\* kernel weight, kernel gradient) has been recomputed since phi_ was last
\* modified.
C23_DerivedFieldsFresh ==
    (grid_kind # "none" /\ call = "none") =>
        \A a \in InnerPackages : data_pkg_pool_[a].computed = DerivedFields

\* What the code keeps: all derived fields are fresh when the constructor
\* returns, and all but the non-normalized gradient when cleanInterface
\* returns.
C23_FreshButNoneNormalized ==
    (grid_kind # "none" /\ call = "none") =>
        \A a \in InnerPackages :
            data_pkg_pool_[a].computed =
                IF Constructing THEN DerivedFields
                ELSE DerivedFields \ {"none_normalized_n_"}

====
